---- MODULE Spec2Model ----
(***************************************************************************)
(* Model of python_service/ml_service.py: the yield-prediction service.    *)
(*                                                                         *)
(* Process 0 is the __main__ start-up block; processes 1..MaxReq are the   *)
(* requests (train, predict, optimize), each handled by a thread of its    *)
(* own, as app.run serves them.  The handlers share the models directory   *)
(* (files) and numpy's global random generator (rng).  A handler is cut    *)
(* into steps at every access to one of these shared objects.  Requests    *)
(* are numbered in the order they arrive.                                  *)
(*                                                                         *)
(* Numbers: every real is kept as an integer numerator over a fixed        *)
(* positive denominator, so all arithmetic is exact.                       *)
(*   training features : numerator over Den                                *)
(*   request values    : integers (denominator 1)                          *)
(*   grid candidates   : numerator over grid_points - 1                    *)
(* Features are numbered 1 temperature, 2 pressure, 3 catalyst amount,     *)
(* 4 reaction time.                                                        *)
(***************************************************************************)
EXTENDS Integers, Sequences, FiniteSets, TLC

\* ---------------------------------------------------------------- bounds
\* number of requests the server receives (and of handler threads)
MaxReq == 2
\* modulus of the modelled random generator; rand() returns k / RandMod
RandMod == 16
\* n_samples of generate_sample_data (100 in the source), scaled down
n_samples == 2
\* grid_points of optimize (10 in the source), scaled down
grid_points == 2

Procs == 0..MaxReq
Reqs == 1..MaxReq
Features == 1..4
Den == 10 * RandMod

\* ------------------------------------------------- numpy global generator
\* np.random.seed(s): the generator state is a function of the seed only
seed(s) == s % RandMod

\* one step of the generator
NextRng(s) == (5 * s + 3) % RandMod

RECURSIVE RngAfter(_, _)
RngAfter(s, k) == IF k = 0 THEN s ELSE RngAfter(NextRng(s), k - 1)

\* np.random.rand(n, 4) from state s: row i, column f is draw 4*(i-1)+f
rand(s) == [i \in 1..n_samples |-> [f \in Features |-> RngAfter(s, 4 * (i - 1) + f)]]

\* X[:, f] = u * span + offset, as numerators over Den (u = k / RandMod)
AffineMap(u) ==
    [i \in 1..n_samples |->
        << u[i][1] * 1000 + 500 * RandMod,
           u[i][2] * 90 + 10 * RandMod,
           u[i][3] * 19 + 1 * RandMod,
           u[i][4] * 230 + 10 * RandMod >>]

Clip(v, lo, hi) == IF v < lo THEN lo ELSE IF v > hi THEN hi ELSE v

\* Y = clip((0.4 X0 + 0.3 X1^2 + 0.2 X2 + 0.1 X3) / 100 * 100, 0, 100),
\* as numerators over 10 * Den * Den
Yield(X) ==
    [i \in 1..n_samples |->
        Clip(4 * X[i][1] * Den + 3 * X[i][2] * X[i][2]
               + 2 * X[i][3] * Den + 1 * X[i][4] * Den,
             0, 100 * 10 * Den * Den)]

\* the TrainingSet generate_sample_data returns when rand() starts in state s
generate_sample_data(s) == LET X == AffineMap(rand(s)) IN [X |-> X, Y |-> Yield(X)]

\* ----------------------------------------------------- scaler and forest
RECURSIVE ColSum(_, _, _)
ColSum(X, f, i) == IF i = 0 THEN 0 ELSE X[i][f] + ColSum(X, f, i - 1)

\* StandardScaler.fit: the per-feature mean, kept as the column sums
\* (mean = sum / (n_samples * Den))
fit_transform(X) == [f \in Features |-> ColSum(X, f, n_samples)]

\* StandardScaler.transform of a row whose numbers are numerators over den:
\* raises when the row has not 4 features; else (x - mean) / scale, where
\* scale > 0, given here multiplied by the positive factor
\* scale * n_samples * Den * den
transform_ok(row) == Len(row) = 4
transform(sum, row, den) == [f \in Features |-> row[f] * n_samples * Den - sum[f] * den]

RECURSIVE MaxUpTo(_, _)
MaxUpTo(Y, i) ==
    IF i = 1 THEN Y[1]
    ELSE IF Y[i] > MaxUpTo(Y, i - 1) THEN Y[i] ELSE MaxUpTo(Y, i - 1)
RECURSIVE MinUpTo(_, _)
MinUpTo(Y, i) ==
    IF i = 1 THEN Y[1]
    ELSE IF Y[i] < MinUpTo(Y, i - 1) THEN Y[i] ELSE MinUpTo(Y, i - 1)

\* RandomForestRegressor(random_state=42).fit is library code: a
\* deterministic function of its training data whose result is a piecewise
\* constant function of the standardized features.  It is modelled by one
\* regression tree that splits the features at 0 and whose leaf values are
\* taken from the training yields.
model_fit(D) ==
    [hi |-> MaxUpTo(D.Y, n_samples), lo |-> MinUpTo(D.Y, n_samples)]

\* model.predict of one standardized row
model_predict(m, z) ==
    IF z[1] > 0 \/ z[2] > 0 THEN m.hi
    ELSE IF z[3] > 0 /\ z[4] > 0 THEN (m.hi + m.lo) \div 2
    ELSE m.lo

\* ------------------------------------------------------------ model store
\* an artifact file: absent, being written (truncated), or complete.
\* run names the training run that wrote it: the number of the process
\* that trained (0 the start-up block), PrevRun for an earlier life of the
\* service.  data is the fitted tree of a model file and the column sums
\* of a scaler file.
PrevRun == -1
Absent == [state |-> "absent", run |-> PrevRun, data |-> <<>>]
None == [state |-> "none", run |-> PrevRun, data |-> <<>>]
Partial(r) == [state |-> "partial", run |-> r, data |-> <<>>]
Artifact(r, d) == [state |-> "ok", run |-> r, data |-> d]

\* os.path.exists
exists(file) == file.state # "absent"

\* joblib.load raises on a missing or truncated file
joblib_load_ok(file) == file.state = "ok"

\* --------------------------------------------------------------- requests
\* a request body: request.json.  nonempty is the truth value of the JSON
\* value; keys are the top-level keys; ranges[f] = <<>> when the key of
\* parameter f is missing from the ranges mapping.
NoBody == [nonempty |-> FALSE, keys |-> {}, features |-> <<>>, ranges |-> <<>>]
FeaturesBody(v) == [nonempty |-> TRUE, keys |-> {"features"}, features |-> v, ranges |-> <<>>]
RangesBody(r) == [nonempty |-> TRUE, keys |-> {"ranges"}, features |-> <<>>, ranges |-> r]
OtherBody == [nonempty |-> TRUE, keys |-> {"other"}, features |-> <<>>, ranges |-> <<>>]

PredictBodies ==
    { NoBody, OtherBody,
      FeaturesBody(<<100, 5, 1, 12>>),
      FeaturesBody(<<100, 5, 1>>) }

OptimizeBodies ==
    { NoBody, OtherBody,
      RangesBody(<< <<50, 150>>, <<1, 10>>, <<1, 2>>, <<1, 24>> >>),
      RangesBody(<< <<150, 50>>, <<1, 10>>, <<1, 2>>, <<1, 24>> >>),
      RangesBody(<< <<100, 100>>, <<5, 5>>, <<1, 1>>, <<12, 12>> >>),
      RangesBody(<< <<50, 150>>, <<1, 10>>, <<1, 2>>, <<>> >>) }

\* `not data or 'features' not in data`
has_key(b, key) == b.nonempty /\ key \in b.keys

\* a response: the HTTP status, the success flag and the payload
NoResp == [status |-> 0, success |-> FALSE, prediction |-> 0,
           optimal |-> <<>>, yield |-> 0]
Failure(code) == [NoResp EXCEPT !.status = code]
PredictOk(v) == [NoResp EXCEPT !.status = 200, !.success = TRUE, !.prediction = v]
OptimizeOk(best, y) ==
    [NoResp EXCEPT !.status = 200, !.success = TRUE, !.optimal = best, !.yield = y]
TrainOk == [NoResp EXCEPT !.status = 200, !.success = TRUE]

\* -------------------------------------------------------------- optimizer
\* np.linspace(lo, hi, grid_points), as numerators over grid_points - 1
linspace(lo, hi) == [i \in 1..grid_points |-> lo * (grid_points - 1) + (i - 1) * (hi - lo)]

GridSize == grid_points * grid_points * grid_points * grid_points

\* np.meshgrid(t, p, c, r) has the default indexing 'xy': each of the four
\* arrays has shape (len p, len t, len c, len r).  grid.reshape(4, -1).T
\* flattens that shape in C order, so row k of X_grid has the indices below.
meshgrid_index(k) ==
    [ t |-> ((k - 1) \div (grid_points * grid_points)) % grid_points,
      p |-> ((k - 1) \div (grid_points * grid_points * grid_points)) % grid_points,
      c |-> ((k - 1) \div grid_points) % grid_points,
      r |-> (k - 1) % grid_points ]

X_grid(ranges) ==
    [k \in 1..GridSize |->
        LET ix == meshgrid_index(k) IN
        << linspace(ranges[1][1], ranges[1][2])[ix.t + 1],
           linspace(ranges[2][1], ranges[2][2])[ix.p + 1],
           linspace(ranges[3][1], ranges[3][2])[ix.c + 1],
           linspace(ranges[4][1], ranges[4][2])[ix.r + 1] >>]

\* model.predict(scaler.transform(X_grid))
y_pred(model, scaler, grid) ==
    [k \in DOMAIN grid |->
        model_predict(model.data, transform(scaler.data, grid[k], grid_points - 1))]

\* argmax returning the last index of the maximum instead of the first
argmax_last(y) ==
    CHOOSE i \in DOMAIN y :
        /\ \A j \in DOMAIN y : y[j] <= y[i]
        /\ \A j \in DOMAIN y : j > i => y[j] < y[i]

\* np.argmax: the first index of the maximum
argmax(y) ==
    CHOOSE i \in DOMAIN y :
        /\ \A j \in DOMAIN y : y[j] <= y[i]
        /\ \A j \in DOMAIN y : j < i => y[j] < y[i]

\* ranges['...'][0] and [1] raise when the key is missing
ranges_ok(ranges) == \A f \in Features : Len(ranges[f]) = 2

\* ------------------------------------------------------------------ state
VARIABLES files, rng, pc, kind, body, data, loaded, resp

vars == <<files, rng, pc, kind, body, data, loaded, resp>>

NoData == [X |-> <<>>, Y |-> <<>>]
NotLoaded == [returned |-> FALSE, model |-> None, scaler |-> None]

\* the artifact pair a run of an earlier life of the service left behind
PrevModel == Artifact(PrevRun, model_fit(generate_sample_data(seed(42))))
PrevScaler == Artifact(PrevRun, fit_transform(generate_sample_data(seed(42)).X))

\* the generator state of a fresh process (seeded from the system); every
\* draw of the service follows a seed(42), so the value is never drawn from
InitRng == {3}

Init ==
    /\ files \in [model : {Absent, PrevModel}, scaler : {Absent, PrevScaler}]
    /\ rng \in InitRng
    /\ pc = [p \in Procs |-> IF p = 0 THEN "m_check" ELSE "idle"]
    /\ kind = [p \in Procs |-> IF p = 0 THEN "main" ELSE "none"]
    /\ body = [p \in Procs |-> NoBody]
    /\ data = [p \in Procs |-> NoData]
    /\ loaded = [p \in Procs |-> NotLoaded]
    /\ resp = [p \in Procs |-> NoResp]

\* No answer is waiting to be sent.  Sent(p) touches nothing but p's own
\* variables and so commutes with every step of the other processes; it is
\* taken before any of them.
Quiet == \A q \in Reqs : pc[q] # "done"

\* ------------------------------------------------- start-up (lines 240-253)
\* if the model file is missing: generate_sample_data (its seed call here,
\* its draw in Rand) and train_model; then app.run
MainCheck ==
    /\ pc[0] = "m_check"
    /\ IF exists(files.model)
         THEN /\ pc' = [pc EXCEPT ![0] = "serving"]
              /\ UNCHANGED rng
         ELSE /\ pc' = [pc EXCEPT ![0] = "rand"]
              /\ rng' = seed(42)
    /\ UNCHANGED <<files, kind, body, data, loaded, resp>>

\* request p arrives: the server is up and p is the next request
arrives(p) ==
    /\ Quiet
    /\ pc[0] = "serving"
    /\ pc[p] = "idle"
    /\ p > 1 => pc[p - 1] # "idle"

\* ------------------------------------------------------ train() (98-124)
\* train() calls generate_sample_data, which starts with np.random.seed(42)
TrainStart(p) ==
    /\ arrives(p)
    /\ kind' = [kind EXCEPT ![p] = "train"]
    /\ rng' = seed(42)
    /\ pc' = [pc EXCEPT ![p] = "rand"]
    /\ UNCHANGED <<files, body, data, loaded, resp>>

\* ------------------------------------- generate_sample_data (lines 24-46)
\* np.random.rand(n_samples, 4), the affine maps, the yield; return X, Y
Rand(p) ==
    /\ Quiet
    /\ pc[p] = "rand"
    /\ data' = [data EXCEPT ![p] = generate_sample_data(rng)]
    /\ rng' = RngAfter(rng, 4 * n_samples)
    /\ pc' = [pc EXCEPT ![p] = "open_model"]
    /\ UNCHANGED <<files, kind, body, loaded, resp>>

\* -------------------------------------------------- train_model (49-75)
\* train_model has returned: score when ok, None otherwise.  The start-up
\* block ignores the result and starts serving; train() answers.
train_return(p, ok) ==
    /\ pc' = [pc EXCEPT ![p] = IF kind[p] = "main" THEN "serving" ELSE "done"]
    /\ resp' = [resp EXCEPT ![p] = IF kind[p] = "main" THEN NoResp
                                   ELSE IF ok THEN TrainOk ELSE Failure(500)]

\* scaler.fit_transform, train_test_split, model.fit (lines 53-61) work on
\* data[p] only; their results are model_fit(data[p]) and
\* fit_transform(data[p].X).
\* joblib.dump(model, model_path): open(path, 'wb') truncates the file
OpenModel(p) ==
    /\ Quiet
    /\ pc[p] = "open_model"
    /\ files' = [files EXCEPT !.model = Partial(p)]
    /\ pc' = [pc EXCEPT ![p] = "write_model"]
    /\ UNCHANGED <<rng, kind, body, data, loaded, resp>>

\* ... and the pickle is written and the file closed
WriteModel(p) ==
    /\ Quiet
    /\ pc[p] = "write_model"
    /\ files' = [files EXCEPT !.model = Artifact(p, model_fit(data[p]))]
    /\ pc' = [pc EXCEPT ![p] = "open_scaler"]
    /\ UNCHANGED <<rng, kind, body, data, loaded, resp>>

\* joblib.dump(scaler, scaler_path)
OpenScaler(p) ==
    /\ Quiet
    /\ pc[p] = "open_scaler"
    /\ files' = [files EXCEPT !.scaler = Partial(p)]
    /\ pc' = [pc EXCEPT ![p] = "write_scaler"]
    /\ UNCHANGED <<rng, kind, body, data, loaded, resp>>

\* the scaler is written; model.score; return score
WriteScaler(p) ==
    /\ Quiet
    /\ pc[p] = "write_scaler"
    /\ files' = [files EXCEPT !.scaler = Artifact(p, fit_transform(data[p].X))]
    /\ train_return(p, TRUE)
    /\ UNCHANGED <<rng, kind, body, data, loaded>>

\* a joblib.dump raises (disk full, no permission, ...): the except clause
\* of train_model logs and returns None; what was written stays
DumpError(p) ==
    /\ Quiet
    /\ pc[p] \in {"open_model", "write_model", "open_scaler", "write_scaler"}
    /\ train_return(p, FALSE)
    /\ UNCHANGED <<files, rng, kind, body, data, loaded>>

\* ------------------------------------------- predict() and optimize()
\* a body check that also validates the feature vector before the load
body_accepted_validating(b, key) ==
    has_key(b, key) /\ (key = "features" => Len(b.features) = 4)

\* the body check of predict / optimize: 400 before the model is loaded
\* (lines 130-136, 179-185)
body_accepted(b, key) == has_key(b, key)

\* predict after the load (147-173): features.reshape(1, -1);
\* scaler.transform; model.predict; any exception is answered by the except
\* clause with status 500
predict(model, scaler, features) ==
    IF ~transform_ok(features)
      THEN Failure(500)
      ELSE PredictOk(model_predict(model.data, transform(scaler.data, features, 1)))

\* optimize after the load (196-238): the grid, the batch prediction,
\* argmax; a missing key raises KeyError, answered by the except clause
\* with status 500
optimize(model, scaler, ranges) ==
    IF ~ranges_ok(ranges)
      THEN Failure(500)
      ELSE LET grid == X_grid(ranges)
               y == y_pred(model, scaler, grid)
               best_idx == argmax(y)
           IN OptimizeOk(grid[best_idx], y[best_idx])

\* --------------------------------------------------- load_model (78-94)
\* an except clause that hands back what was loaded before the failure
load_failed_keeps_model(m) == <<m, None>>

\* the except clause of load_model: m is the model loaded so far
load_failed(m) == <<None, None>>

\* load_model has returned pair to the handler of kind k with body b: 404
\* when an element is None (lines 140-145, 189-194), else the handler
\* computes its answer (no shared object is touched any more)
load_return(p, k, b, pair) ==
    /\ loaded' = [loaded EXCEPT ![p] = [returned |-> TRUE, model |-> pair[1], scaler |-> pair[2]]]
    /\ pc' = [pc EXCEPT ![p] = "done"]
    /\ resp' = [resp EXCEPT ![p] =
                  IF pair[1] = None \/ pair[2] = None THEN Failure(404)
                  ELSE IF k = "predict" THEN predict(pair[1], pair[2], b.features)
                  ELSE optimize(pair[1], pair[2], b.ranges)]

\* a request of kind k (key 'features' or 'ranges') with body b arrives:
\* the body check, then load_model up to its os.path.exists test
handler_start(p, k, key, b) ==
    /\ arrives(p)
    /\ kind' = [kind EXCEPT ![p] = k]
    /\ body' = [body EXCEPT ![p] = b]
    /\ IF ~body_accepted(b, key)
         THEN /\ pc' = [pc EXCEPT ![p] = "done"]
              /\ resp' = [resp EXCEPT ![p] = Failure(400)]
              /\ UNCHANGED loaded
         ELSE IF ~(exists(files.model) /\ exists(files.scaler))
         THEN load_return(p, k, b, <<None, None>>)
         ELSE /\ pc' = [pc EXCEPT ![p] = "load_model"]
              /\ UNCHANGED <<loaded, resp>>
    /\ UNCHANGED <<files, rng, data>>

PredictStart(p, b) == handler_start(p, "predict", "features", b)

OptimizeStart(p, b) == handler_start(p, "optimize", "ranges", b)

\* model = joblib.load(model_path)
LoadModel(p) ==
    /\ Quiet
    /\ pc[p] = "load_model"
    /\ IF joblib_load_ok(files.model)
         THEN /\ loaded' = [loaded EXCEPT ![p].model = files.model]
              /\ pc' = [pc EXCEPT ![p] = "load_scaler"]
              /\ UNCHANGED resp
         ELSE load_return(p, kind[p], body[p], load_failed(None))
    /\ UNCHANGED <<files, rng, kind, body, data>>

\* scaler = joblib.load(scaler_path); return model, scaler; the handler
\* computes its answer
LoadScaler(p) ==
    /\ Quiet
    /\ pc[p] = "load_scaler"
    /\ IF joblib_load_ok(files.scaler)
         THEN load_return(p, kind[p], body[p], <<loaded[p].model, files.scaler>>)
         ELSE load_return(p, kind[p], body[p], load_failed(loaded[p].model))
    /\ UNCHANGED <<files, rng, kind, body, data>>

\* the response is sent and the handler thread ends
Sent(p) ==
    /\ pc[p] = "done"
    /\ pc' = [pc EXCEPT ![p] = "sent"]
    /\ kind' = [kind EXCEPT ![p] = "none"]
    /\ body' = [body EXCEPT ![p] = NoBody]
    /\ data' = [data EXCEPT ![p] = NoData]
    /\ loaded' = [loaded EXCEPT ![p] = NotLoaded]
    /\ resp' = [resp EXCEPT ![p] = NoResp]
    /\ UNCHANGED <<files, rng>>

Next ==
    \/ MainCheck
    \/ \E p \in Procs : Rand(p)
    \/ \E p \in Procs : OpenModel(p)
    \/ \E p \in Procs : WriteModel(p)
    \/ \E p \in Procs : OpenScaler(p)
    \/ \E p \in Procs : WriteScaler(p)
    \/ \E p \in Procs : DumpError(p)
    \/ \E p \in Reqs : TrainStart(p)
    \/ \E p \in Reqs : \E b \in PredictBodies : PredictStart(p, b)
    \/ \E p \in Reqs : \E b \in OptimizeBodies : OptimizeStart(p, b)
    \/ \E p \in Reqs : LoadModel(p)
    \/ \E p \in Reqs : LoadScaler(p)
    \/ \E p \in Reqs : Sent(p)

Spec == Init /\ [][Next]_vars

\* ======================================================== properties
Answered(p, k) == pc[p] = "done" /\ kind[p] = k
PairLoaded(p) ==
    loaded[p].returned /\ loaded[p].model # None /\ loaded[p].scaler # None
NoArtifacts == ~exists(files.model) /\ ~exists(files.scaler)

\* C1: the (model, scaler) pair load_model returns comes from one training
\* run, whatever the interleaving with a concurrent train_model.
C1_NoTornRead ==
    \A p \in Reqs : PairLoaded(p) => loaded[p].model.run = loaded[p].scaler.run

C3_ReadyWhenServing ==
    pc[0] = "serving" /\ (\A p \in Reqs : pc[p] = "idle") =>
        files.model.state = "ok" /\ files.scaler.state = "ok"

BadRanges(r) ==
    \E f \in Features : Len(r[f]) # 2 \/ (Len(r[f]) = 2 /\ r[f][1] > r[f][2])

\* C4: with a trained model loaded, Optimize on ranges with lower > upper
\* or with a missing parameter key fails with the invalid-input error (400)
\* and never answers success.
C4_OptimizeRejectsBadRanges ==
    \A p \in Reqs :
        Answered(p, "optimize") /\ PairLoaded(p) /\ BadRanges(body[p].ranges)
            => resp[p].status = 400 /\ ~resp[p].success

\* the candidates by their four grid indices (each 0 .. grid_points - 1),
\* numbered 1 .. grid_points^4
Candidates == 1..(grid_points * grid_points * grid_points * grid_points)
Indices(k) ==
    << (k - 1) \div (grid_points * grid_points * grid_points),
       ((k - 1) \div (grid_points * grid_points)) % grid_points,
       ((k - 1) \div grid_points) % grid_points,
       (k - 1) % grid_points >>
Lines(r) == [f \in Features |-> linspace(r[f][1], r[f][2])]
CandidateOn(lines, ix) == [f \in Features |-> lines[f][ix[f] + 1]]
CandidateAt(r, k) == CandidateOn(Lines(r), Indices(k))
\* position of a candidate when temperature varies slowest, reaction time fastest
TemperatureOuter(ix) == ((ix[1] * grid_points + ix[2]) * grid_points + ix[3]) * grid_points + ix[4]
\* position of a candidate when pressure varies slowest, then temperature
PressureOuter(ix) == ((ix[2] * grid_points + ix[1]) * grid_points + ix[3]) * grid_points + ix[4]
\* the predicted yield of every candidate of request p
Yields(p) ==
    LET lines == Lines(body[p].ranges)
        m == loaded[p].model.data
        sum == loaded[p].scaler.data
    IN [k \in Candidates |->
           model_predict(m, transform(sum, CandidateOn(lines, Indices(k)), grid_points - 1))]
\* the candidates of maximal yield
Maximal(Y) ==
    LET top == CHOOSE v \in {Y[c] : c \in DOMAIN Y} : \A c \in DOMAIN Y : Y[c] <= v
    IN {c \in DOMAIN Y : Y[c] = top}
\* the first candidate of T in the order Pos
FirstIn(T, Pos(_)) ==
    CHOOSE k \in T : \A c \in T : Pos(Indices(k)) <= Pos(Indices(c))
Evaluated(p) == Answered(p, "optimize") /\ resp[p].status = 200

\* C5 as stated: Optimize returns a candidate of maximal predicted yield,
\* the first of the maximal ones in the order temperature outer-most,
\* reaction time inner-most.
\* (The one-element sets bind values, so that each is computed once.)
C5_FirstMaxTemperatureOuter ==
    \A p \in Reqs :
        Evaluated(p) =>
            \A Y \in {Yields(p)} : \A T \in {Maximal(Y)} :
                \A first \in {FirstIn(T, TemperatureOuter)} :
                    /\ resp[p].optimal = CandidateAt(body[p].ranges, first)
                    /\ resp[p].yield = Y[first]

\* C5 amended: Optimize returns a candidate of maximal predicted yield, the
\* first of the maximal ones in the order pressure outer-most, then
\* temperature, then catalyst amount, reaction time inner-most.
C5_FirstMaxPressureOuter ==
    \A p \in Reqs :
        Evaluated(p) =>
            \A Y \in {Yields(p)} : \A T \in {Maximal(Y)} :
                \A first \in {FirstIn(T, PressureOuter)} :
                    /\ resp[p].optimal = CandidateAt(body[p].ranges, first)
                    /\ resp[p].yield = Y[first]
                    /\ \A c \in Candidates : Y[c] <= resp[p].yield

\* C5 witness: an answered Optimize where several candidates tie for the
\* maximum and the two orders pick different candidates
C5_Witness ==
    \E p \in Reqs :
        /\ Evaluated(p)
        /\ \E Y \in {Yields(p)} : \E T \in {Maximal(Y)} :
              /\ CandidateAt(body[p].ranges, FirstIn(T, PressureOuter))
                    # CandidateAt(body[p].ranges, FirstIn(T, TemperatureOuter))
              /\ resp[p].optimal = CandidateAt(body[p].ranges, FirstIn(T, PressureOuter))

\* C6: every candidate of an evaluated Optimize request has each component
\* within [low, high] of its parameter, and the answer is a candidate.
C6_CandidatesWithinRanges ==
    \A p \in Reqs :
        Evaluated(p) =>
            LET r == body[p].ranges
                grid == X_grid(r)
            IN /\ \A k \in DOMAIN grid : \A f \in Features :
                      /\ r[f][1] * (grid_points - 1) <= grid[k][f]
                      /\ grid[k][f] <= r[f][2] * (grid_points - 1)
               /\ \E k \in DOMAIN grid : resp[p].optimal = grid[k]

\* C7: with a trained model loaded, Predict on a vector that has not 4
\* components fails with the invalid-input error (400), distinct from
\* model-not-found (404) and from the generic internal failure (500).
C7_PredictRejectsWrongLength ==
    \A p \in Reqs :
        Answered(p, "predict") /\ PairLoaded(p) /\ Len(body[p].features) # 4
            => resp[p].status = 400 /\ ~resp[p].success

\* C8: all calls of generate_sample_data return the same TrainingSet (the
\* one a call on its own returns), also when two Train requests interleave
\* their seed and draw steps.
C8_GenerationDeterministic ==
    \A p \in Procs :
        data[p] # NoData =>
            /\ data[p] = generate_sample_data(seed(42))
            /\ \A q \in Procs : data[q] # NoData => data[q] = data[p]

\* C9: load_model returns (None, None) whenever the model file or the
\* scaler file is missing, a pair only when both files are present, and
\* never one element without the other.
C9_LoadAllOrNothing ==
    \A p \in Reqs :
        loaded[p].returned =>
            /\ (loaded[p].model = None) <=> (loaded[p].scaler = None)
            /\ loaded[p].model # None =>
                  /\ exists(files.model) /\ exists(files.scaler)
                  /\ loaded[p].model.state = "ok" /\ loaded[p].scaler.state = "ok"
            /\ ~exists(files.model) \/ ~exists(files.scaler) =>
                  loaded[p].model = None /\ loaded[p].scaler = None

\* C9 witness: load_model returned (None, None) with the model file stored
\* and only the scaler file missing
C9_Witness ==
    \E p \in Reqs :
        /\ loaded[p].returned
        /\ exists(files.model) /\ ~exists(files.scaler)
        /\ loaded[p].model = None /\ loaded[p].scaler = None

\* C10: a training run that reports failure has left the stored artifacts
\* as they were: no file written (or truncated) by that run is stored.
C10_FailedTrainLeavesStore ==
    \A p \in Reqs :
        Answered(p, "train") /\ ~resp[p].success =>
            files.model.run # p /\ files.scaler.run # p

====
